---- MODULE Spec2Model ----
(***************************************************************************)
(* Payload processor: the expression pipeline engine (parser/engine.go)    *)
(* and the lazily parsed MessageContext that feeds it.                     *)
(*                                                                         *)
(* Strings that the engine inspects (expressions, pipeline parts) are      *)
(* sequences of one-character strings, so that strings.Split, TrimSpace,   *)
(* HasPrefix and TrimPrefix are computed character by character.  Payload  *)
(* bytes are only handed to the external parsers and are opaque strings.   *)
(***************************************************************************)
EXTENDS Integers, Sequences, FiniteSets, TLC

(***************************************************************************)
(* Bounds of the model.                                                    *)
(***************************************************************************)
\* longest pipeline, in parts, that Spec enumerates
MaxSegs == 3
\* calls one caller makes on the context under Spec
MaxCalls == 3
\* concurrent callers of one context under SpecCtx
NumCallers == 2
\* calls each concurrent caller makes under SpecCtx
MaxCtxCalls == 2

(***************************************************************************)
(* engine.go constants                                                     *)
(***************************************************************************)
xpathPrefix == <<"x","p","a","t","h",":">>
jsonpathPrefix == <<"j","s","o","n","p","a","t","h",":">>
extractAsJSONPipe == <<"e","x","t","r","a","c","t","A","s","J","S","O","N">>
extractAsXMLPipe == <<"e","x","t","r","a","c","t","A","s","X","M","L">>

(***************************************************************************)
(* Go's strings package, as the engine uses it                             *)
(***************************************************************************)
\* position of the first "|" of s, 0 when there is none
RECURSIVE IndexPipe(_, _)
IndexPipe(s, k) ==
    IF k > Len(s) THEN 0
    ELSE IF s[k] = "|" THEN k
    ELSE IndexPipe(s, k + 1)

\* strings.Split(s, "|"): always at least one piece, "" splits into <<"">>
RECURSIVE Split(_)
Split(s) ==
    LET k == IndexPipe(s, 1)
    IN  IF k = 0 THEN << s >>
        ELSE << SubSeq(s, 1, k - 1) >> \o Split(SubSeq(s, k + 1, Len(s)))

IsSpace(ch) == ch \in {" ", "\t", "\n", "\r"}

RECURSIVE TrimLeft(_)
TrimLeft(s) ==
    IF s # << >> /\ IsSpace(Head(s)) THEN TrimLeft(Tail(s)) ELSE s

RECURSIVE TrimRight(_)
TrimRight(s) ==
    IF s # << >> /\ IsSpace(s[Len(s)]) THEN TrimRight(SubSeq(s, 1, Len(s) - 1)) ELSE s

\* the part taken as written
TrimSpaceNone(s) == s

\* strings.TrimSpace
TrimSpace(s) == TrimRight(TrimLeft(s))

\* strings.HasPrefix
HasPrefix(s, p) == Len(s) >= Len(p) /\ SubSeq(s, 1, Len(p)) = p

\* strings.TrimPrefix
TrimPrefix(s, p) == IF HasPrefix(s, p) THEN SubSeq(s, Len(p) + 1, Len(s)) ELSE s

(***************************************************************************)
(* Payload bytes and the external parsers and query back ends              *)
(***************************************************************************)
\* an XML element whose text is a JSON object
XML_O == "<d>{\"k\":\"v\"}</d>"
\* the JSON object inside XML_O
JSON_KV == "{\"k\":\"v\"}"
\* a JSON object whose member k is an XML fragment
JSON_P == "{\"k\":\"<d>Z</d>\"}"
\* the XML fragment inside JSON_P
XML_Z == "<d>Z</d>"
\* bytes no XML parser accepts
XML_BAD == "<d>"

WellFormedXML == {XML_O, XML_Z}
WellFormedJSON == {JSON_KV, JSON_P}

\* native expressions
TextOfD == <<"/","d","/","t","e","x","t","(",")">>
NodeD == <<"/","d">>
KeyK == <<"k">>

NilValue == [kind |-> "nil", v |-> ""]
StringValue(s) == [kind |-> "string", v |-> s]
NodeSetValue(s) == [kind |-> "nodeset", v |-> s]

\* QueryResult{}
ZeroResult == [Value |-> NilValue, Type |-> "ZeroResultType"]
NilErr == [kind |-> "nil"]

\* the text of the single element d of a well-formed XML payload
TextOf(raw) == IF raw = XML_O THEN JSON_KV ELSE "Z"
\* member k of a well-formed JSON payload
MemberK(raw) == IF raw = JSON_KV THEN "v" ELSE XML_Z

\* PayloadObject.Query of the XML payload: <<QueryResult, error>>
XMLQuery(raw, expression) ==
    IF expression = TextOfD
    THEN << [Value |-> StringValue(TextOf(raw)), Type |-> "StringResult"], NilErr >>
    ELSE IF expression = NodeD
    THEN << [Value |-> NodeSetValue(raw), Type |-> "NodeSetResult"], NilErr >>
    ELSE << ZeroResult, [kind |-> "QueryNotFound", Expression |-> expression] >>

\* PayloadObject.Query of the JSON payload: <<QueryResult, error>>
JSONQuery(raw, expression) ==
    IF expression = KeyK
    THEN << [Value |-> StringValue(MemberK(raw)), Type |-> "StringResult"], NilErr >>
    ELSE << ZeroResult, [kind |-> "QueryNotFound", Expression |-> expression] >>

IsXMLType(contentType) == contentType \in {"application/xml", "text/xml"}

\* PayloadObject.Query, dispatched on the variant the factory built
Query(pld, expression) ==
    IF IsXMLType(pld.contentType)
    THEN XMLQuery(pld.raw, expression)
    ELSE JSONQuery(pld.raw, expression)

NilPayload == [raw |-> "", contentType |-> "", id |-> << >>]

\* PayloadFactory.CreatePayload: <<PayloadObject, error>>; id names the instance
CreatePayload(raw, contentType, id) ==
    IF IsXMLType(contentType)
    THEN IF raw \in WellFormedXML
         THEN << [raw |-> raw, contentType |-> contentType, id |-> id], NilErr >>
         ELSE << NilPayload, [kind |-> "DocumentBuildFailed", contentType |-> contentType] >>
    ELSE IF contentType = "application/json"
    THEN IF raw \in WellFormedJSON
         THEN << [raw |-> raw, contentType |-> contentType, id |-> id], NilErr >>
         ELSE << NilPayload, [kind |-> "DocumentBuildFailed", contentType |-> contentType] >>
    ELSE << NilPayload, [kind |-> "UnsupportedContentType", contentType |-> contentType] >>

(***************************************************************************)
(* Errors                                                                  *)
(***************************************************************************)
\* the wrap that leaves the part out of its message
WrapPartBare(trimmedPart, err) ==
    [kind |-> "fmt.Errorf", part |-> << >>, inner |-> err]

\* fmt.Errorf("error in expression part '%s': %w", trimmedPart, err)
WrapPart(trimmedPart, err) ==
    [kind |-> "fmt.Errorf", part |-> trimmedPart, inner |-> err]

\* %T of the dynamic value
GoType(value) ==
    IF value.kind = "nil" THEN "<nil>"
    ELSE IF value.kind = "string" THEN "string"
    ELSE "*xmlquery.Node"

\* ErrEvaluationFailed of a pipe stage whose input is no string
NotStringErr(fullExpression, trimmedPart, value) ==
    [kind |-> "ErrEvaluationFailed",
     Expression |-> fullExpression,
     Reason |-> << "pipe operation '" >> \o trimmedPart
                \o << "' requires string input from previous step, got ", GoType(value) >>,
     InnerError |-> NilErr]

\* ErrEvaluationFailed of a transform whose intermediate payload could not be built
IntermediateErr(fullExpression, format, pipeOperation, err) ==
    [kind |-> "ErrEvaluationFailed",
     Expression |-> fullExpression,
     Reason |-> << "failed to create intermediate ", format, " payload for pipe '" >>
                \o pipeOperation \o << "'" >>,
     InnerError |-> err]

\* ErrUnsupportedExpression of a pipe part that is neither transform nor query
UnsupportedPipeErr(trimmedPart) ==
    [kind |-> "ErrUnsupportedExpression",
     Expression |-> << "unsupported pipe operation: " >> \o trimmedPart]

(***************************************************************************)
(* ExpressionEngine.evaluateSingleExpression                               *)
(* The result carries the Query calls made (none or one).                  *)
(***************************************************************************)
\* the gate with text/xml forgotten
XPathAllowedOneType(contentType) == contentType = "application/xml"

\* the content-type gate of an xpath: part
XPathAllowed(contentType) ==
    ~ (contentType # "application/xml" /\ contentType # "text/xml")

\* the content-type gate of a jsonpath: part
JSONPathAllowed(contentType) == ~ (contentType # "application/json")

evaluateSingleExpression(pld, expressionPart) ==
    IF HasPrefix(expressionPart, xpathPrefix)
    THEN IF ~ XPathAllowed(pld.contentType)
         THEN [res |-> ZeroResult,
               err |-> [kind |-> "ErrInvalidPayloadForOperation", Operation |-> "XPath",
                        PayloadType |-> pld.contentType],
               queried |-> << >>]
         ELSE LET actualExpr == TrimPrefix(expressionPart, xpathPrefix)
                  q == Query(pld, actualExpr)
              IN  [res |-> q[1], err |-> q[2],
                   queried |-> << [pld |-> pld, expression |-> actualExpr] >>]
    ELSE IF HasPrefix(expressionPart, jsonpathPrefix)
    THEN IF ~ JSONPathAllowed(pld.contentType)
         THEN [res |-> ZeroResult,
               err |-> [kind |-> "ErrInvalidPayloadForOperation", Operation |-> "JSONPath",
                        PayloadType |-> pld.contentType],
               queried |-> << >>]
         ELSE LET actualExpr == TrimPrefix(expressionPart, jsonpathPrefix)
                  q == Query(pld, actualExpr)
              IN  [res |-> q[1], err |-> q[2],
                   queried |-> << [pld |-> pld, expression |-> actualExpr] >>]
    ELSE [res |-> ZeroResult,
          err |-> [kind |-> "ErrUnsupportedExpression", Expression |-> expressionPart],
          queried |-> << >>]

(***************************************************************************)
(* ExpressionEngine.Evaluate: its locals are a frame                       *)
(*   fullExpression, currentPayload  the arguments                         *)
(*   parts, i, activePayload, currentResult  the locals of the loop        *)
(*   stageLog, queryLog, createLog  the parts entered and the calls made   *)
(*                                  to Query and CreatePayload so far      *)
(***************************************************************************)
NoFrame ==
    [fullExpression |-> << >>, currentPayload |-> NilPayload, parts |-> << >>, i |-> 0,
     activePayload |-> NilPayload, currentResult |-> ZeroResult,
     stageLog |-> << >>, queryLog |-> << >>, createLog |-> << >>]

\* the frame of a loop that cuts the expression at its first "|" only and
\* takes the rest as one part
EnterFrameSplitOnce(currentPayload, fullExpression) ==
    LET k == IndexPipe(fullExpression, 1)
    IN  [fullExpression |-> fullExpression, currentPayload |-> currentPayload,
         parts |-> IF k = 0 THEN << fullExpression >>
                   ELSE << SubSeq(fullExpression, 1, k - 1),
                           SubSeq(fullExpression, k + 1, Len(fullExpression)) >>,
         i |-> 0,
         activePayload |-> currentPayload, currentResult |-> ZeroResult,
         stageLog |-> << >>, queryLog |-> << >>, createLog |-> << >>]

\* lines 29-35: split the expression, bind the active payload
EnterFrame(currentPayload, fullExpression) ==
    [fullExpression |-> fullExpression, currentPayload |-> currentPayload,
     parts |-> Split(fullExpression), i |-> 0,
     activePayload |-> currentPayload, currentResult |-> ZeroResult,
     stageLog |-> << >>, queryLog |-> << >>, createLog |-> << >>]

\* a return that hands back the running result with the error
ReturnsPartial(f, result, err) ==
    [frame |-> f, returned |-> TRUE, result |-> f.currentResult, err |-> err]

\* a return statement inside the loop
Returns(f, result, err) ==
    [frame |-> f, returned |-> TRUE, result |-> result, err |-> err]

\* the end of one iteration: on to the next part
Continues(f) ==
    [frame |-> [f EXCEPT !.i = @ + 1], returned |-> FALSE,
     result |-> ZeroResult, err |-> NilErr]

\* lines 39-43 and 92-99: a part evaluated as a query against the active payload
QueryPart(f, trimmedPart) ==
    LET r == evaluateSingleExpression(f.activePayload, trimmedPart)
        g == [f EXCEPT !.queryLog = @ \o r.queried]
    IN  IF r.err # NilErr
        THEN Returns(g, ZeroResult, WrapPart(trimmedPart, r.err))
        ELSE Continues([g EXCEPT !.currentResult = r.res])

\* a transform that returns the payload it built instead of the text
TransformPartHandle(f, pipeOperation, prevResultStr, id) ==
    LET target == IF pipeOperation = extractAsJSONPipe
                  THEN "application/json" ELSE "application/xml"
        format == IF pipeOperation = extractAsJSONPipe THEN "JSON" ELSE "XML"
        made == CreatePayload(prevResultStr, target, id)
        g == [f EXCEPT !.createLog = Append(@, [raw |-> prevResultStr, contentType |-> target])]
    IN  IF made[2] # NilErr
        THEN [frame |-> g, returned |-> TRUE, result |-> ZeroResult,
              err |-> IntermediateErr(f.fullExpression, format, pipeOperation, made[2])]
        ELSE [frame |-> [g EXCEPT !.i = @ + 1,
                                  !.activePayload = made[1],
                                  !.currentResult = [Value |-> [kind |-> "payload", v |-> "",
                                                                handle |-> id],
                                                     Type |-> "ObjectResult"]],
              returned |-> FALSE, result |-> ZeroResult, err |-> NilErr]

\* a transform that forgets to make the payload it built the active one
TransformPartKeepsActive(f, pipeOperation, prevResultStr, id) ==
    LET target == IF pipeOperation = extractAsJSONPipe
                  THEN "application/json" ELSE "application/xml"
        format == IF pipeOperation = extractAsJSONPipe THEN "JSON" ELSE "XML"
        made == CreatePayload(prevResultStr, target, id)
        g == [f EXCEPT !.createLog = Append(@, [raw |-> prevResultStr, contentType |-> target])]
    IN  IF made[2] # NilErr
        THEN [frame |-> g, returned |-> TRUE, result |-> ZeroResult,
              err |-> IntermediateErr(f.fullExpression, format, pipeOperation, made[2])]
        ELSE [frame |-> [g EXCEPT !.i = @ + 1,
                                  !.currentResult = [Value |-> StringValue(prevResultStr),
                                                     Type |-> "StringResult"]],
              returned |-> FALSE, result |-> ZeroResult, err |-> NilErr]

\* lines 55-89: a transform part re-parses the previous string result
TransformPart(f, pipeOperation, prevResultStr, id) ==
    LET target == IF pipeOperation = extractAsJSONPipe
                  THEN "application/json" ELSE "application/xml"
        format == IF pipeOperation = extractAsJSONPipe THEN "JSON" ELSE "XML"
        made == CreatePayload(prevResultStr, target, id)
        g == [f EXCEPT !.createLog = Append(@, [raw |-> prevResultStr, contentType |-> target])]
    IN  IF made[2] # NilErr
        THEN Returns(g, ZeroResult,
                     IntermediateErr(f.fullExpression, format, pipeOperation, made[2]))
        ELSE Continues([g EXCEPT !.activePayload = made[1],
                                 !.currentResult = [Value |-> StringValue(prevResultStr),
                                                    Type |-> "StringResult"]])

\* the loop body with the string check of lines 46-52 left out
LoopBodyNoStringCheck(f, id) ==
    LET trimmedPart == TrimSpace(f.parts[f.i + 1])
        g == [f EXCEPT !.stageLog = Append(@, f.i)]
    IN  IF f.i = 0
        THEN QueryPart(g, trimmedPart)
        ELSE IF trimmedPart = extractAsJSONPipe \/ trimmedPart = extractAsXMLPipe
        THEN TransformPart(g, trimmedPart, f.currentResult.Value.v, id)
        ELSE IF HasPrefix(trimmedPart, jsonpathPrefix) \/ HasPrefix(trimmedPart, xpathPrefix)
        THEN QueryPart(g, trimmedPart)
        ELSE Returns(g, ZeroResult, UnsupportedPipeErr(trimmedPart))

\* lines 37-105: one iteration of the loop, on part i of the frame
LoopBody(f, id) ==
    LET trimmedPart == TrimSpace(f.parts[f.i + 1])
        g == [f EXCEPT !.stageLog = Append(@, f.i)]
    IN  IF f.i = 0
        THEN QueryPart(g, trimmedPart)
        ELSE IF f.currentResult.Value.kind # "string"
        THEN Returns(g, ZeroResult,
                     NotStringErr(f.fullExpression, trimmedPart, f.currentResult.Value))
        ELSE IF trimmedPart = extractAsJSONPipe \/ trimmedPart = extractAsXMLPipe
        THEN TransformPart(g, trimmedPart, f.currentResult.Value.v, id)
        ELSE IF HasPrefix(trimmedPart, jsonpathPrefix) \/ HasPrefix(trimmedPart, xpathPrefix)
        THEN QueryPart(g, trimmedPart)
        ELSE Returns(g, ZeroResult, UnsupportedPipeErr(trimmedPart))

\* lines 29-107 as one function of the arguments: the loop run to its return
RECURSIVE RunLoop(_)
RunLoop(f) ==
    IF f.i = Len(f.parts)
    THEN [result |-> f.currentResult, err |-> NilErr]
    ELSE LET r == LoopBody(f, << 0, 0, f.i >>)
         IN  IF r.returned THEN [result |-> r.result, err |-> r.err]
             ELSE RunLoop(r.frame)

EvaluateAlone(currentPayload, fullExpression) ==
    RunLoop(EnterFrame(currentPayload, fullExpression))

(***************************************************************************)
(* Inputs                                                                  *)
(***************************************************************************)
frobnicate == <<"f","r","o","b","n","i","c","a","t","e">>

\* the pipeline parts expressions are built from, some padded with blanks
SegPool ==
    { xpathPrefix \o TextOfD \o << " " >>,
      xpathPrefix \o NodeD,
      << " " >> \o jsonpathPrefix \o KeyK,
      << " " >> \o extractAsJSONPipe \o << " " >>,
      extractAsXMLPipe,
      frobnicate }

RECURSIVE Join(_)
Join(segs) ==
    IF Len(segs) = 1 THEN segs[1]
    ELSE segs[1] \o << "|" >> \o Join(Tail(segs))

\* parts that resemble a transform keyword: one with a suffix, one with an
\* argument, one in another case
NearMisses ==
    { extractAsJSONPipe \o << "x" >>,
      extractAsXMLPipe \o << " ", "1" >>,
      << "e","x","t","r","a","c","t","a","s","j","s","o","n" >> }

\* a query followed by a part that resembles a transform keyword
NearMissExpressions ==
    { Join(<< q, m >>) : q \in { xpathPrefix \o TextOfD, xpathPrefix \o NodeD },
                         m \in NearMisses }

\* an XPath union, whose native syntax uses "|": "xpath:/d|/d" and
\* "xpath:/d/text()|/d"
UnionExpressions ==
    { xpathPrefix \o NodeD \o << "|" >> \o NodeD,
      xpathPrefix \o TextOfD \o << "|" >> \o NodeD }

\* the empty expression, a blank one, every pipeline of 1..MaxSegs parts of
\* the pool, the near misses and the unions
Expressions ==
    { << >>, << " ", " " >> } \cup NearMissExpressions \cup UnionExpressions \cup
    UNION { { Join(segs) : segs \in [1..n -> SegPool] } : n \in 1..MaxSegs }

\* "xpath:/d/text() | extractAsJSON | jsonpath:k"
XmlThenJson ==
    Join(<< xpathPrefix \o TextOfD \o << " " >>,
            << " " >> \o extractAsJSONPipe \o << " " >>,
            << " " >> \o jsonpathPrefix \o KeyK >>)

\* "xpath:/d/text() |extractAsXML"
XmlThenXml == Join(<< xpathPrefix \o TextOfD \o << " " >>, extractAsXMLPipe >>)

\* the expressions concurrent callers evaluate
CtxExpressions == { XmlThenJson, XmlThenXml }

\* the messages a context is constructed for: raw bytes and declared content type
Messages ==
    { [raw |-> XML_O, contentType |-> "text/xml"],
      [raw |-> XML_Z, contentType |-> "application/xml"],
      [raw |-> JSON_P, contentType |-> "application/json"],
      [raw |-> XML_BAD, contentType |-> "application/xml"] }

\* the messages concurrent callers share a context of
CtxMessages ==
    { [raw |-> XML_O, contentType |-> "application/xml"],
      [raw |-> JSON_P, contentType |-> "application/json"],
      [raw |-> XML_BAD, contentType |-> "application/xml"] }

AllCallers == 1..NumCallers

(***************************************************************************)
(* State                                                                   *)
(***************************************************************************)
VARIABLES
    RawPayload,        \* MessageContext.RawPayload
    ContentType,       \* MessageContext.ContentType
    processedPayload,  \* MessageContext.processedPayload, NilPayload until parsed
    readers,           \* payloadLock: the callers holding the read lock
    writer,            \* payloadLock: the caller holding the write lock, 0 for none
    ctxCreates,        \* CreatePayload calls made on the context's raw bytes
    pc,                \* where each caller is
    foundAbsent,       \* ensurePayloadParsed: the caller's read-locked check found nothing
    op,                \* the method each caller is in
    frame,             \* each caller's Evaluate frame
    ret,               \* what each caller's call returned
    calls,             \* calls each caller has made
    seen               \* an earlier evaluation, kept to compare a later one with

vars ==
    << RawPayload, ContentType, processedPayload, readers, writer, ctxCreates,
       pc, foundAbsent, op, frame, ret, calls, seen >>

NoRet == [result |-> ZeroResult, err |-> NilErr, payload |-> NilPayload]
NoSeen == [set |-> FALSE, fullExpression |-> << >>, result |-> ZeroResult, err |-> NilErr]

\* NewMessageContext(raw, contentType, engine): nothing parsed yet
NewMessageContext(messages) ==
    /\ \E m \in messages : RawPayload = m.raw /\ ContentType = m.contentType
    /\ processedPayload = NilPayload
    /\ readers = {}
    /\ writer = 0
    /\ ctxCreates = 0
    /\ pc = [c \in AllCallers |-> "idle"]
    /\ foundAbsent = [c \in AllCallers |-> FALSE]
    /\ op = [c \in AllCallers |-> "none"]
    /\ frame = [c \in AllCallers |-> NoFrame]
    /\ ret = [c \in AllCallers |-> NoRet]
    /\ calls = [c \in AllCallers |-> 0]
    /\ seen = NoSeen

Init == NewMessageContext(Messages)

InitCtx == NewMessageContext(CtxMessages)

(***************************************************************************)
(* MessageContext                                                          *)
(***************************************************************************)
\* a caller enters EvaluateExpression(fullExpression); once an evaluation is
\* kept in seen, the runs explored are re-runs of that expression
EvaluateExpression(c, fullExpression, maxCalls) ==
    /\ pc[c] = "idle"
    /\ calls[c] < maxCalls
    /\ seen.set => fullExpression = seen.fullExpression
    /\ pc' = [pc EXCEPT ![c] = "RLock"]
    /\ op' = [op EXCEPT ![c] = "EvaluateExpression"]
    /\ frame' = [frame EXCEPT ![c] = [NoFrame EXCEPT !.fullExpression = fullExpression]]
    /\ ret' = [ret EXCEPT ![c] = NoRet]
    /\ calls' = [calls EXCEPT ![c] = @ + 1]
    /\ foundAbsent' = [foundAbsent EXCEPT ![c] = FALSE]
    /\ UNCHANGED << RawPayload, ContentType, processedPayload, readers, writer,
                    ctxCreates, seen >>

\* a caller enters GetProcessedPayload()
GetProcessedPayload(c, maxCalls) ==
    /\ pc[c] = "idle"
    /\ calls[c] < maxCalls
    /\ pc' = [pc EXCEPT ![c] = "RLock"]
    /\ op' = [op EXCEPT ![c] = "GetProcessedPayload"]
    /\ frame' = [frame EXCEPT ![c] = NoFrame]
    /\ ret' = [ret EXCEPT ![c] = NoRet]
    /\ calls' = [calls EXCEPT ![c] = @ + 1]
    /\ foundAbsent' = [foundAbsent EXCEPT ![c] = FALSE]
    /\ UNCHANGED << RawPayload, ContentType, processedPayload, readers, writer,
                    ctxCreates, seen >>

\* ensurePayloadParsed: payloadLock.RLock()
RLock(c) ==
    /\ pc[c] = "RLock"
    /\ writer = 0
    /\ readers' = readers \cup {c}
    /\ pc' = [pc EXCEPT ![c] = "ReadCheck"]
    /\ UNCHANGED << RawPayload, ContentType, foundAbsent, processedPayload, writer, ctxCreates,
                    op, frame, ret, calls, seen >>

\* the check whose outcome is ignored: every call goes on to the write lock
ReadCheckAlwaysLock(c) ==
    /\ pc[c] = "ReadCheck"
    /\ readers' = readers \ {c}
    /\ pc' = [pc EXCEPT ![c] = "Lock"]
    /\ foundAbsent' = [foundAbsent EXCEPT ![c] = (processedPayload = NilPayload)]
    /\ UNCHANGED << RawPayload, ContentType, processedPayload, writer, ctxCreates,
                    op, frame, ret, calls, seen >>

\* the check that goes for the write lock with the read lock still held
ReadCheckKeepsRLock(c) ==
    /\ pc[c] = "ReadCheck"
    /\ readers' = IF processedPayload = NilPayload THEN readers ELSE readers \ {c}
    /\ pc' = [pc EXCEPT ![c] = IF processedPayload = NilPayload THEN "Lock" ELSE "Parsed"]
    /\ foundAbsent' = [foundAbsent EXCEPT ![c] = (processedPayload = NilPayload)]
    /\ UNCHANGED << RawPayload, ContentType, processedPayload, writer, ctxCreates,
                    op, frame, ret, calls, seen >>

\* ensurePayloadParsed: the check under the read lock, then RUnlock()
ReadCheck(c) ==
    /\ pc[c] = "ReadCheck"
    /\ readers' = readers \ {c}
    /\ pc' = [pc EXCEPT ![c] = IF processedPayload = NilPayload THEN "Lock" ELSE "Parsed"]
    /\ foundAbsent' = [foundAbsent EXCEPT ![c] = (processedPayload = NilPayload)]
    /\ UNCHANGED << RawPayload, ContentType, processedPayload, writer, ctxCreates,
                    op, frame, ret, calls, seen >>

\* ensurePayloadParsed: payloadLock.Lock()
Lock(c) ==
    /\ pc[c] = "Lock"
    /\ writer = 0
    /\ readers = {}
    /\ writer' = c
    /\ pc' = [pc EXCEPT ![c] = "Locked"]
    /\ UNCHANGED << RawPayload, ContentType, foundAbsent, processedPayload, readers, ctxCreates,
                    op, frame, ret, calls, seen >>

\* the write lock taken without looking again
StillAbsentNoRecheck(payload) == TRUE

\* the re-check under the write lock: build only when still absent
StillAbsent(payload) == payload = NilPayload

\* ensurePayloadParsed: under the write lock, re-check and build
Build(c) ==
    /\ pc[c] = "Locked"
    /\ IF StillAbsent(processedPayload)
       THEN LET made == CreatePayload(RawPayload, ContentType, << 0, ctxCreates + 1, 0 >>)
            IN  /\ ctxCreates' = ctxCreates + 1
                /\ IF made[2] # NilErr
                   THEN /\ ret' = [ret EXCEPT ![c].err = made[2]]
                        /\ UNCHANGED processedPayload
                   ELSE /\ processedPayload' = made[1]
                        /\ UNCHANGED ret
       ELSE UNCHANGED << processedPayload, ctxCreates, ret >>
    /\ pc' = [pc EXCEPT ![c] = "Unlock"]
    /\ UNCHANGED << RawPayload, ContentType, foundAbsent, readers, writer, op, frame, calls, seen >>

\* ensurePayloadParsed: payloadLock.Unlock(), and the error return
Unlock(c) ==
    /\ pc[c] = "Unlock"
    /\ writer' = 0
    /\ pc' = [pc EXCEPT ![c] = IF ret[c].err # NilErr THEN "Done" ELSE "Parsed"]
    /\ UNCHANGED << RawPayload, ContentType, foundAbsent, processedPayload, readers, ctxCreates,
                    op, frame, ret, calls, seen >>

\* GetProcessedPayload returns the cached payload
ReturnPayload(c) ==
    /\ pc[c] = "Parsed"
    /\ op[c] = "GetProcessedPayload"
    /\ ret' = [ret EXCEPT ![c].payload = processedPayload]
    /\ pc' = [pc EXCEPT ![c] = "Done"]
    /\ UNCHANGED << RawPayload, ContentType, foundAbsent, processedPayload, readers, writer,
                    ctxCreates, op, frame, calls, seen >>

(***************************************************************************)
(* ExpressionEngine.Evaluate, one loop iteration per step                  *)
(***************************************************************************)
\* EvaluateExpression hands the cached payload to engine.Evaluate
Evaluate(c) ==
    /\ pc[c] = "Parsed"
    /\ op[c] = "EvaluateExpression"
    /\ frame' = [frame EXCEPT ![c] = EnterFrame(processedPayload, frame[c].fullExpression)]
    /\ pc' = [pc EXCEPT ![c] = "Loop"]
    /\ UNCHANGED << RawPayload, ContentType, foundAbsent, processedPayload, readers, writer,
                    ctxCreates, op, ret, calls, seen >>

\* the loop body with activePayload kept in a field of the engine, which
\* every caller of the engine shares
LoopSharedActive(c) ==
    /\ pc[c] = "Loop"
    /\ frame[c].i < Len(frame[c].parts)
    /\ LET r == LoopBody(frame[c], << c, calls[c], frame[c].i >>)
       IN  /\ frame' = [d \in AllCallers |->
                          IF d = c
                          THEN r.frame
                          ELSE [frame[d] EXCEPT !.activePayload = r.frame.activePayload]]
           /\ IF r.returned
              THEN /\ ret' = [ret EXCEPT ![c].result = r.result, ![c].err = r.err]
                   /\ pc' = [pc EXCEPT ![c] = "Done"]
              ELSE UNCHANGED << ret, pc >>
    /\ UNCHANGED << RawPayload, ContentType, foundAbsent, processedPayload, readers, writer,
                    ctxCreates, op, calls, seen >>

\* the loop body with a transform rebinding the payload of the caller as well
LoopRebindsCache(c) ==
    /\ pc[c] = "Loop"
    /\ frame[c].i < Len(frame[c].parts)
    /\ LET r == LoopBody(frame[c], << c, calls[c], frame[c].i >>)
       IN  /\ frame' = [frame EXCEPT ![c] = r.frame]
           /\ processedPayload' = r.frame.activePayload
           /\ IF r.returned
              THEN /\ ret' = [ret EXCEPT ![c].result = r.result, ![c].err = r.err]
                   /\ pc' = [pc EXCEPT ![c] = "Done"]
              ELSE UNCHANGED << ret, pc >>
    /\ UNCHANGED << RawPayload, ContentType, foundAbsent, readers, writer,
                    ctxCreates, op, calls, seen >>

\* the body of the loop on the next part; a failing part returns
Loop(c) ==
    /\ pc[c] = "Loop"
    /\ frame[c].i < Len(frame[c].parts)
    /\ LET r == LoopBody(frame[c], << c, calls[c], frame[c].i >>)
       IN  /\ frame' = [frame EXCEPT ![c] = r.frame]
           /\ IF r.returned
              THEN /\ ret' = [ret EXCEPT ![c].result = r.result, ![c].err = r.err]
                   /\ pc' = [pc EXCEPT ![c] = "Done"]
              ELSE UNCHANGED << ret, pc >>
    /\ UNCHANGED << RawPayload, ContentType, foundAbsent, processedPayload, readers, writer,
                    ctxCreates, op, calls, seen >>

\* line 106: return currentResult, nil
EvaluateReturn(c) ==
    /\ pc[c] = "Loop"
    /\ frame[c].i = Len(frame[c].parts)
    /\ ret' = [ret EXCEPT ![c].result = frame[c].currentResult, ![c].err = NilErr]
    /\ pc' = [pc EXCEPT ![c] = "Done"]
    /\ UNCHANGED << RawPayload, ContentType, foundAbsent, processedPayload, readers, writer,
                    ctxCreates, op, frame, calls, seen >>

\* the call is over and its locals are gone; keep is whether its outcome is
\* kept for a later comparison
Return(c, keep) ==
    /\ pc[c] = "Done"
    /\ pc' = [pc EXCEPT ![c] = "idle"]
    /\ op' = [op EXCEPT ![c] = "none"]
    /\ frame' = [frame EXCEPT ![c] = NoFrame]
    /\ ret' = [ret EXCEPT ![c] = NoRet]
    /\ seen' = IF keep /\ ~ seen.set /\ op[c] = "EvaluateExpression"
               THEN [set |-> TRUE, fullExpression |-> frame[c].fullExpression,
                     result |-> ret[c].result, err |-> ret[c].err]
               ELSE seen
    /\ foundAbsent' = [foundAbsent EXCEPT ![c] = FALSE]
    /\ UNCHANGED << RawPayload, ContentType, processedPayload, readers, writer,
                    ctxCreates, calls >>

(***************************************************************************)
(* Specifications                                                          *)
(***************************************************************************)
Step(c, expressions, maxCalls, keeps) ==
    \/ \E e \in expressions : EvaluateExpression(c, e, maxCalls)
    \/ GetProcessedPayload(c, maxCalls)
    \/ RLock(c)
    \/ ReadCheck(c)
    \/ Lock(c)
    \/ Build(c)
    \/ Unlock(c)
    \/ ReturnPayload(c)
    \/ Evaluate(c)
    \/ Loop(c)
    \/ EvaluateReturn(c)
    \/ \E keep \in keeps : Return(c, keep)

\* one caller, every expression
Next == Step(1, Expressions, MaxCalls, BOOLEAN)

Spec == Init /\ [][Next]_vars

\* concurrent callers of one context
NextCtx == \E c \in AllCallers : Step(c, CtxExpressions, MaxCtxCalls, {FALSE})

SpecCtx == InitCtx /\ [][NextCtx]_vars

\* the steps of caller c that wait for nothing
Running(c) ==
    \/ ReadCheck(c)
    \/ Build(c)
    \/ Unlock(c)
    \/ ReturnPayload(c)
    \/ Evaluate(c)
    \/ Loop(c)
    \/ EvaluateReturn(c)
    \/ Return(c, FALSE)

\* every goroutine keeps running, CreatePayload returns, and payloadLock lets
\* no caller starve: one that asks for either side again and again gets it
Fairness ==
    \A c \in AllCallers :
        /\ WF_vars(Running(c))
        /\ SF_vars(RLock(c))
        /\ SF_vars(Lock(c))

\* concurrent callers of one context under fair scheduling
SpecCtxFair == InitCtx /\ [][NextCtx]_vars /\ Fairness

(***************************************************************************)
(* Properties                                                              *)
(***************************************************************************)
\* the call of caller c has entered engine.Evaluate
Entered(c) == op[c] = "EvaluateExpression" /\ frame[c].parts # << >>

\* the call of caller c has returned from engine.Evaluate
Finished(c) == pc[c] = "Done" /\ Entered(c)

\* C1: whenever the context holds a parsed payload, CreatePayload has been
\* called exactly once on its raw bytes, and every call that has reached
\* engine.Evaluate, whatever the interleaving of the callers, was handed that
\* one instance.
C1_AtMostOnce ==
    /\ processedPayload # NilPayload => ctxCreates = 1
    /\ \A c \in AllCallers :
         (pc[c] \in {"Loop", "Done"} /\ Entered(c))
         => /\ processedPayload # NilPayload
            /\ frame[c].currentPayload = processedPayload

\* two callers both found the payload absent, and both evaluated on one instance
C1_Witness ==
    \E c1, c2 \in AllCallers :
        /\ c1 # c2
        /\ Finished(c1) /\ Finished(c2)
        /\ foundAbsent[c1] /\ foundAbsent[c2]
        /\ frame[c1].currentPayload = frame[c2].currentPayload
        /\ ctxCreates = 1

\* C2: the cached payload is absent until the first call, and once set no
\* step of any later call replaces it, clears it or calls CreatePayload on the
\* context's raw bytes again.
C2_SingleAssignment ==
    /\ [] ((\A c \in AllCallers : calls[c] = 0) => processedPayload = NilPayload)
    /\ [][ processedPayload # NilPayload
           => (processedPayload' = processedPayload /\ ctxCreates' = ctxCreates) ]_vars

\* a later call whose pipeline ran a transform and failed, the cache untouched
C2_Witness ==
    \E c \in AllCallers :
        /\ Finished(c)
        /\ calls[c] >= 2
        /\ ret[c].err # NilErr
        /\ frame[c].createLog # << >>
        /\ processedPayload.id = << 0, 1, 0 >>
        /\ ctxCreates = 1

\* the part a Loop step of caller c is about to run
NextPart(c) == TrimSpace(frame[c].parts[frame[c].i + 1])

\* caller c takes a Loop step
LoopStep(c) ==
    /\ pc[c] = "Loop"
    /\ frame[c].i < Len(frame[c].parts)
    /\ frame'[c] # frame[c]

\* the Loop step of caller c hands its part to evaluateSingleExpression
QueryStep(c) ==
    /\ LoopStep(c)
    /\ \/ frame[c].i = 0
       \/ /\ frame[c].currentResult.Value.kind = "string"
          /\ NextPart(c) \notin {extractAsJSONPipe, extractAsXMLPipe}
          /\ \/ HasPrefix(NextPart(c), xpathPrefix)
             \/ HasPrefix(NextPart(c), jsonpathPrefix)

MismatchErr(operation, part, contentType) ==
    WrapPart(part, [kind |-> "ErrInvalidPayloadForOperation", Operation |-> operation,
                    PayloadType |-> contentType])

\* the step fails with err and calls neither Query nor CreatePayload
FailsWithoutCall(c, err) ==
    /\ pc'[c] = "Done"
    /\ ret'[c].err = err
    /\ ret'[c].result = ZeroResult
    /\ frame'[c].queryLog = frame[c].queryLog
    /\ frame'[c].createLog = frame[c].createLog

\* the step calls Query once, on the active payload, with the part less its prefix
QueriesOnce(c, prefix) ==
    frame'[c].queryLog =
        Append(frame[c].queryLog,
               [pld |-> frame[c].activePayload,
                expression |-> SubSeq(NextPart(c), Len(prefix) + 1, Len(NextPart(c)))])

\* C3: a query part evaluated against the active payload: xpath: against a
\* content type other than application/xml and text/xml, and jsonpath:
\* against one other than application/json, fails with the payload-type
\* mismatch and Query is not called; on a compatible type Query is called
\* exactly once with the part less its prefix.
C3_TypeGating ==
    [][ \A c \in AllCallers :
          QueryStep(c) =>
            LET ct == frame[c].activePayload.contentType
            IN  /\ HasPrefix(NextPart(c), xpathPrefix) =>
                     IF ct \in {"application/xml", "text/xml"}
                     THEN QueriesOnce(c, xpathPrefix)
                     ELSE FailsWithoutCall(c, MismatchErr("XPath", NextPart(c), ct))
                /\ HasPrefix(NextPart(c), jsonpathPrefix) =>
                     IF ct = "application/json"
                     THEN QueriesOnce(c, jsonpathPrefix)
                     ELSE FailsWithoutCall(c, MismatchErr("JSONPath", NextPart(c), ct))
      ]_vars

\* an xpath: part met the JSON payload a transform had made active
C3_Witness ==
    \E c \in AllCallers :
        /\ Finished(c)
        /\ ret[c].err.kind = "fmt.Errorf"
        /\ ret[c].err.inner.kind = "ErrInvalidPayloadForOperation"
        /\ ret[c].err.inner.Operation = "XPath"
        /\ ret[c].err.inner.PayloadType = "application/json"
        /\ frame[c].activePayload # frame[c].currentPayload

\* part k of the call of caller c, trimmed
Part(c, k) == TrimSpace(frame[c].parts[k])

\* a string made of blanks only, the empty string included
AllBlank(str) == \A k \in 1..Len(str) : str[k] = " "

\* what the first part of caller c's pipeline yields when evaluated alone on
\* the payload the call was handed
Alone(c) == EvaluateAlone(frame[c].currentPayload, frame[c].parts[1])

YieldsString(c) == Alone(c).err = NilErr /\ Alone(c).result.Value.kind = "string"

\* caller c has finished "xpath:E | extractAsJSON" on an XML payload, and
\* xpath:E alone yields a string
PassthroughRun(c) ==
    /\ Finished(c)
    /\ Len(frame[c].parts) = 2
    /\ HasPrefix(Part(c, 1), xpathPrefix)
    /\ Part(c, 2) = extractAsJSONPipe
    /\ IsXMLType(frame[c].currentPayload.contentType)
    /\ YieldsString(c)

\* C4 (as claimed): for every XML payload and every E, "xpath:E |
\* extractAsJSON" returns the string Value that "xpath:E" returns.
C4_Original ==
    \A c \in AllCallers :
        PassthroughRun(c)
        => /\ ret[c].err = NilErr
           /\ ret[c].result.Value = Alone(c).result.Value

\* C4 (amended): when the string xpath:E yields is one CreatePayload accepts
\* as application/json, "xpath:E | extractAsJSON" returns that same string
\* Value; when CreatePayload rejects it, the pipeline fails with the
\* intermediate-payload error and returns no value.
C4_Passthrough ==
    \A c \in AllCallers :
        PassthroughRun(c)
        => LET s == Alone(c).result.Value.v
               made == CreatePayload(s, "application/json", << >>)
           IN  IF made[2] = NilErr
               THEN /\ ret[c].err = NilErr
                    /\ ret[c].result.Value = Alone(c).result.Value
               ELSE /\ ret[c].result = ZeroResult
                    /\ ret[c].err = IntermediateErr(frame[c].fullExpression, "JSON",
                                                    extractAsJSONPipe, made[2])

\* the text of an XML element, itself JSON, came back unchanged through the transform
C4_Witness ==
    \E c \in AllCallers :
        /\ PassthroughRun(c)
        /\ ret[c].err = NilErr
        /\ ret[c].result.Value = StringValue(JSON_KV)
        /\ frame[c].activePayload.contentType = "application/json"

\* caller c has finished Q1 | transform | Q2, Q2 carrying prefix, and Q1 alone
\* yields a string
RoundTripRun(c, transform, prefix) ==
    /\ Finished(c)
    /\ Len(frame[c].parts) = 3
    /\ Part(c, 2) = transform
    /\ HasPrefix(Part(c, 3), prefix)
    /\ YieldsString(c)

\* the outcome is that of Query(Q2 less its prefix) on the payload CreatePayload
\* builds from Q1's string, and Q2 was run on that payload only
RoundTripLaw(c, prefix, target) ==
    LET s == Alone(c).result.Value.v
        made == CreatePayload(s, target, << c, calls[c], 1 >>)
        inner == SubSeq(Part(c, 3), Len(prefix) + 1, Len(Part(c, 3)))
        q == Query(made[1], inner)
    IN  made[2] = NilErr
        => /\ ret[c].result = q[1]
           /\ ret[c].err = IF q[2] = NilErr THEN NilErr ELSE WrapPart(Part(c, 3), q[2])
           /\ Len(frame[c].queryLog) = 2
           /\ frame[c].queryLog[1].pld = frame[c].currentPayload
           /\ frame[c].queryLog[2] = [pld |-> made[1], expression |-> inner]
           /\ made[1] # frame[c].currentPayload

\* C5: for Q1 | extractAsJSON | jsonpath:Q2 (and Q1 | extractAsXML | xpath:Q2)
\* where Q1 yields a string s, the result is that of Query(Q2) on the payload
\* CreatePayload builds from s as application/json (application/xml), and Q2
\* is never run against the initial payload.
C5_RoundTrip ==
    \A c \in AllCallers :
        /\ RoundTripRun(c, extractAsJSONPipe, jsonpathPrefix)
           => RoundTripLaw(c, jsonpathPrefix, "application/json")
        /\ RoundTripRun(c, extractAsXMLPipe, xpathPrefix)
           => RoundTripLaw(c, xpathPrefix, "application/xml")

\* "xpath:/d/text() | extractAsJSON | jsonpath:k" on <d>{"k":"v"}</d> gave "v"
C5_Witness ==
    \E c \in AllCallers :
        /\ RoundTripRun(c, extractAsJSONPipe, jsonpathPrefix)
        /\ RawPayload = XML_O
        /\ ret[c].err = NilErr
        /\ ret[c].result = [Value |-> StringValue("v"), Type |-> "StringResult"]

\* the part the call of caller c stopped at, counted from 0
LastStage(c) == frame[c].stageLog[Len(frame[c].stageLog)]

\* caller c's call failed at a part that is neither a transform nor a query
FailedAtUnsupported(c) ==
    /\ Finished(c)
    /\ ret[c].err # NilErr
    /\ LastStage(c) >= 1
    /\ Part(c, LastStage(c) + 1) \notin {extractAsJSONPipe, extractAsXMLPipe}
    /\ ~ HasPrefix(Part(c, LastStage(c) + 1), xpathPrefix)
    /\ ~ HasPrefix(Part(c, LastStage(c) + 1), jsonpathPrefix)

\* C6: a part at position >= 1 that is neither a transform keyword nor a
\* prefixed query makes Evaluate fail with the unsupported-pipe-operation error
\* naming that part, whatever the type of the previous result.
C6_Original ==
    \A c \in AllCallers :
        FailedAtUnsupported(c)
        => ret[c].err = UnsupportedPipeErr(Part(c, LastStage(c) + 1))

\* caller c takes a Loop step on a transform part with a previous result that
\* is no string
TransformOnNonString(c) ==
    /\ LoopStep(c)
    /\ frame[c].i >= 1
    /\ NextPart(c) \in {extractAsJSONPipe, extractAsXMLPipe}
    /\ frame[c].currentResult.Value.kind # "string"

\* C7: a transform part reached with a previous result that is no string
\* fails with the pipe-input-not-string error; CreatePayload is not called and
\* the active payload is not changed.
C7_NonStringInput ==
    [][ \A c \in AllCallers :
          TransformOnNonString(c)
          => /\ FailsWithoutCall(c, NotStringErr(frame[c].fullExpression, NextPart(c),
                                                 frame[c].currentResult.Value))
             /\ frame'[c].activePayload = frame[c].activePayload
      ]_vars

\* a node set met extractAsJSON
C7_Witness ==
    \E c \in AllCallers :
        /\ Finished(c)
        /\ ret[c].err.kind = "ErrEvaluationFailed"
        /\ ret[c].err.InnerError = NilErr
        /\ Part(c, LastStage(c) + 1) = extractAsJSONPipe
        /\ frame[c].currentResult.Value.kind = "nodeset"
        /\ frame[c].createLog = << >>

\* the error kind errors.As finds
ErrKind(err) == IF err.kind = "fmt.Errorf" THEN err.inner.kind ELSE err.kind

\* caller c's call evaluated an empty or all-blank expression
BlankRun(c) == Finished(c) /\ AllBlank(frame[c].fullExpression)

\* C8 (as claimed): an empty or all-whitespace expression fails with an error
\* kind of its own, not the one an unrecognized or unsupported part gets.
C8_Original ==
    \A c \in AllCallers :
        BlankRun(c)
        => /\ ret[c].err # NilErr
           /\ ErrKind(ret[c].err) # "ErrUnsupportedExpression"

\* C8 (amended): an empty or all-whitespace expression fails, without a Query,
\* with the same ErrUnsupportedExpression an unrecognized first part gets,
\* carrying the empty part.
C8_EmptyIsUnsupported ==
    \A c \in AllCallers :
        BlankRun(c)
        => /\ ret[c].result = ZeroResult
           /\ ret[c].err = WrapPart(<< >>, [kind |-> "ErrUnsupportedExpression",
                                            Expression |-> << >>])
           /\ frame[c].queryLog = << >>

\* a blank expression was evaluated and failed
C8_Witness ==
    \E c \in AllCallers :
        /\ BlankRun(c)
        /\ frame[c].fullExpression = << " ", " " >>
        /\ ErrKind(ret[c].err) = "ErrUnsupportedExpression"

\* C9: parts run left to right, each at most once; a failing part ends the
\* call: nothing more is entered, queried or created, and the error comes with
\* the empty QueryResult; with no failure the result is currentResult after the
\* last part.
C9_LeftToRight ==
    /\ [] (\A c \in AllCallers :
             /\ frame[c].stageLog = [k \in 1..Len(frame[c].stageLog) |-> k - 1]
             /\ Len(frame[c].stageLog) <= Len(frame[c].parts)
             /\ Len(frame[c].queryLog) + Len(frame[c].createLog) <= Len(frame[c].stageLog)
             /\ (Finished(c) /\ ret[c].err # NilErr) => ret[c].result = ZeroResult
             /\ (Finished(c) /\ ret[c].err = NilErr)
                => /\ Len(frame[c].stageLog) = Len(frame[c].parts)
                   /\ ret[c].result = frame[c].currentResult)
    /\ [][ \A c \in AllCallers :
             Finished(c) => (frame'[c] = frame[c] \/ frame'[c] = NoFrame) ]_vars

\* a call failed at a part after a successful one, with parts still to come
C9_Witness ==
    \E c \in AllCallers :
        /\ Finished(c)
        /\ ret[c].err # NilErr
        /\ ret[c].result = ZeroResult
        /\ frame[c].currentResult # ZeroResult
        /\ Len(frame[c].stageLog) >= 2
        /\ Len(frame[c].stageLog) < Len(frame[c].parts)

C11_ReadSideOnly ==
    [][ \A c \in AllCallers :
          (processedPayload # NilPayload /\ pc[c] \notin {"Lock", "Locked", "Unlock"})
          => (pc'[c] \notin {"Lock", "Locked", "Unlock"} /\ writer' # c) ]_vars

\* two callers are inside the read-locked check of a parsed payload at once
C11_Witness ==
    /\ processedPayload # NilPayload
    /\ Cardinality(readers) >= 2
    /\ \A c \in readers : pc[c] = "ReadCheck"
    /\ writer = 0

\* C12: under every interleaving of concurrent callers, a call that has
\* returned from engine.Evaluate has exactly the outcome Evaluate gives when
\* run alone on the payload it was handed, and that payload is still the one
\* built from the context's raw bytes.
C12_Stateless ==
    \A c \in AllCallers :
        Finished(c)
        => /\ [result |-> ret[c].result, err |-> ret[c].err]
                = EvaluateAlone(frame[c].currentPayload, frame[c].fullExpression)
           /\ frame[c].currentPayload
                = CreatePayload(RawPayload, ContentType, << 0, 1, 0 >>)[1]
           /\ processedPayload = frame[c].currentPayload

\* one caller has returned a string while another is in the middle of its own
\* pipeline, past a transform
C12_Witness ==
    \E c1, c2 \in AllCallers :
        /\ c1 # c2
        /\ Finished(c1)
        /\ ret[c1].err = NilErr
        /\ ret[c1].result.Value.kind = "string"
        /\ frame[c1].createLog # << >>
        /\ pc[c2] = "Loop"
        /\ frame[c2].i >= 2
        /\ frame[c2].activePayload # frame[c2].currentPayload

\* caller c's call ended at a prefixed query in a position after the first
DirectQueryLast(c) ==
    /\ Finished(c)
    /\ LastStage(c) >= 1
    /\ \/ HasPrefix(Part(c, LastStage(c) + 1), xpathPrefix)
       \/ HasPrefix(Part(c, LastStage(c) + 1), jsonpathPrefix)

\* C13: a prefixed query at position >= 1 is always handed to
\* evaluateSingleExpression on the active payload, whatever the type of the
\* previous result, and the call's outcome at that part is the evaluator's.
C13_Original ==
    \A c \in AllCallers :
        DirectQueryLast(c)
        => LET part == Part(c, LastStage(c) + 1)
               r == evaluateSingleExpression(frame[c].activePayload, part)
           IN  /\ ret[c].err = (IF r.err = NilErr THEN NilErr ELSE WrapPart(part, r.err))
               /\ r.err = NilErr => ret[c].result = r.res

\* the content type a transform keyword builds
TargetType(part) ==
    IF part = extractAsJSONPipe THEN "application/json" ELSE "application/xml"

\* the positions of the transform parts caller c's loop has completed
DoneTransforms(c) ==
    { k \in 2..frame[c].i : Part(c, k) \in {extractAsJSONPipe, extractAsXMLPipe} }

LastOf(S) == CHOOSE k \in S : \A j \in S : j <= k

\* C14: at every point of a pipeline the active payload is the initial one
\* while no transform has succeeded, and otherwise the payload that the most
\* recent successful transform created, of the content type that transform
\* names; the first part and prefixed queries leave it alone.
C14_ActiveBinding ==
    \A c \in AllCallers :
        (Entered(c) /\ pc[c] \in {"Loop", "Done"})
        => IF DoneTransforms(c) = {}
           THEN frame[c].activePayload = frame[c].currentPayload
           ELSE LET k == LastOf(DoneTransforms(c))
                IN  /\ frame[c].activePayload.id = << c, calls[c], k - 1 >>
                    /\ frame[c].activePayload.contentType = TargetType(Part(c, k))
                    /\ frame[c].activePayload # frame[c].currentPayload

\* a query has run after a successful extractAsJSON and the active payload is
\* still the JSON one that transform created
C14_Witness ==
    \E c \in AllCallers :
        /\ Entered(c)
        /\ frame[c].i = 3
        /\ Part(c, 2) = extractAsJSONPipe
        /\ HasPrefix(Part(c, 3), jsonpathPrefix)
        /\ frame[c].activePayload.contentType = "application/json"
        /\ IsXMLType(frame[c].currentPayload.contentType)

\* the Loop step of caller c runs a transform part on a string and goes on
TransformSucceeds(c) ==
    /\ LoopStep(c)
    /\ frame[c].i >= 1
    /\ NextPart(c) \in {extractAsJSONPipe, extractAsXMLPipe}
    /\ frame[c].currentResult.Value.kind = "string"
    /\ pc'[c] = "Loop"
    /\ frame'[c].i = frame[c].i + 1

TransformTail(c) ==
    /\ Finished(c)
    /\ Len(frame[c].parts) >= 3
    /\ \A k \in 2..Len(frame[c].parts) :
         Part(c, k) \in {extractAsJSONPipe, extractAsXMLPipe}
    /\ YieldsString(c)

\* C16: in a pipeline of a query followed only by transforms, every
\* CreatePayload call is made on the string the query produced, with the
\* content type of its keyword; only the initial payload is ever queried; and
\* when every build succeeds the call succeeds with that string unchanged and
\* the active payload is the one the last transform created, while a build
\* that fails fails the call.
C16_TransformsCompose ==
    \A c \in AllCallers :
        TransformTail(c)
        => LET s == Alone(c).result.Value.v
               n == Len(frame[c].parts)
               ok == \A k \in 2..n :
                       CreatePayload(s, TargetType(Part(c, k)), << >>)[2] = NilErr
           IN  /\ \A j \in 1..Len(frame[c].createLog) :
                    frame[c].createLog[j]
                      = [raw |-> s, contentType |-> TargetType(Part(c, j + 1))]
               /\ Len(frame[c].queryLog) = 1
               /\ frame[c].queryLog[1].pld = frame[c].currentPayload
               /\ ok => /\ ret[c].err = NilErr
                        /\ ret[c].result = [Value |-> StringValue(s), Type |-> "StringResult"]
                        /\ Len(frame[c].createLog) = n - 1
                        /\ frame[c].activePayload.id = << c, calls[c], n - 1 >>
                        /\ frame[c].activePayload.contentType = TargetType(Part(c, n))
               /\ ~ ok => ret[c].err # NilErr

\* two transforms in a row have both built a payload from the one string
C16_Witness ==
    \E c \in AllCallers :
        /\ TransformTail(c)
        /\ ret[c].err = NilErr
        /\ Len(frame[c].createLog) = 2
        /\ frame[c].createLog[1].raw = frame[c].createLog[2].raw
        /\ frame[c].activePayload.id = << c, calls[c], 2 >>

\* text occurs in the sequence hay, as one run
Contains(hay, text) ==
    \E j \in 0..(Len(hay) - Len(text)) : SubSeq(hay, j + 1, j + Len(text)) = text

\* the message of err, with those of the errors it wraps, holds text
RECURSIVE Carries(_, _)
Carries(err, text) ==
    IF err.kind = "fmt.Errorf"
    THEN Contains(err.part, text) \/ Carries(err.inner, text)
    ELSE IF err.kind = "ErrEvaluationFailed"
    THEN \/ Contains(err.Expression, text)
         \/ Contains(err.Reason, text)
         \/ Carries(err.InnerError, text)
    ELSE IF err.kind \in {"ErrUnsupportedExpression", "QueryNotFound"}
    THEN Contains(err.Expression, text)
    ELSE FALSE

\* caller c's call has returned an error from engine.Evaluate
Failed(c) == Finished(c) /\ ret[c].err # NilErr

C18_Original ==
    \A c \in AllCallers :
        Finished(c)
        => /\ (LastStage(c) >= 1 /\ Part(c, LastStage(c) + 1) \in NearMisses)
                => /\ ret[c].err = UnsupportedPipeErr(Part(c, LastStage(c) + 1))
                   /\ frame[c].createLog = << >>
           /\ (~ HasPrefix(Part(c, 1), xpathPrefix) /\ ~ HasPrefix(Part(c, 1), jsonpathPrefix))
                => /\ ret[c].err # NilErr
                   /\ LastStage(c) = 0
                   /\ frame[c].createLog = << >>
                   /\ frame[c].queryLog = << >>
           /\ (LastStage(c) >= 1 /\ frame[c].currentResult.Value.kind = "string"
               /\ Part(c, LastStage(c) + 1) \in {extractAsJSONPipe, extractAsXMLPipe})
                => frame[c].createLog # << >>

\* C19: under fair scheduling every call that has entered the context
\* returns; no caller is on the write-lock path with the read lock still held;
\* and a caller that gets the write lock after the payload was built builds
\* nothing.
C19_EveryCallReturns ==
    /\ \A c \in AllCallers : (pc[c] = "RLock") ~> (pc[c] = "Done")
    /\ [] (\A c \in AllCallers : pc[c] \in {"Lock", "Locked", "Unlock"} => c \notin readers)
    /\ [][ \A c \in AllCallers :
             (pc[c] = "Locked" /\ pc'[c] = "Unlock" /\ processedPayload # NilPayload)
             => (processedPayload' = processedPayload /\ ctxCreates' = ctxCreates) ]_vars

\* two callers both found the payload absent; one has built it and gone on,
\* the other has taken the write lock after it and built nothing
C19_Witness ==
    \E c1, c2 \in AllCallers :
        /\ c1 # c2
        /\ foundAbsent[c1] /\ foundAbsent[c2]
        /\ calls[c1] = 1 /\ calls[c2] = 1
        /\ pc[c1] \in {"Parsed", "Loop", "Done"}
        /\ pc[c2] = "Unlock"
        /\ writer = c2
        /\ processedPayload # NilPayload
        /\ ctxCreates = 1

\* C20: whatever transforms the pipelines run on a context have done, the
\* context's cached payload is the instance built from its raw bytes, with the
\* declared content type, and every call that has entered engine.Evaluate was
\* handed it as its initial payload.
C20_CacheUntouched ==
    /\ processedPayload # NilPayload
         => processedPayload
              = [raw |-> RawPayload, contentType |-> ContentType, id |-> << 0, 1, 0 >>]
    /\ \A c \in AllCallers :
         (Entered(c) /\ pc[c] \in {"Loop", "Done"})
         => /\ frame[c].currentPayload = processedPayload
            /\ frame[c].i = 0 => frame[c].activePayload = processedPayload

\* a second evaluation of a pipeline with a transform, after a first one that
\* succeeded, has again started from the cached payload and rebound only its
\* own active payload
C20_Witness ==
    \E c \in AllCallers :
        /\ Finished(c)
        /\ calls[c] >= 2
        /\ seen.set
        /\ seen.err = NilErr
        /\ seen.fullExpression = frame[c].fullExpression
        /\ frame[c].createLog # << >>
        /\ frame[c].queryLog[1].pld = processedPayload
        /\ frame[c].activePayload # processedPayload
        /\ frame[c].activePayload.contentType # processedPayload.contentType
        /\ processedPayload.id = << 0, 1, 0 >>

\* the number of "|" characters of the string s
CountPipes(s) == Cardinality({ k \in 1..Len(s) : s[k] = "|" })

NoPipe(s) == \A k \in 1..Len(s) : s[k] # "|"

\* C21: every "|" of the expression delimits a part: the loop has one part
\* more than the expression has "|" characters, no part holds a "|", and no
\* expression handed to Query holds one, so an XPath union is cut into parts
\* and never reaches Query whole.
C21_EveryPipeSplits ==
    \A c \in AllCallers :
        (Entered(c) /\ pc[c] \in {"Loop", "Done"})
        => /\ Len(frame[c].parts) = CountPipes(frame[c].fullExpression) + 1
           /\ \A k \in 1..Len(frame[c].parts) : NoPipe(frame[c].parts[k])
           /\ \A j \in 1..Len(frame[c].queryLog) : NoPipe(frame[c].queryLog[j].expression)

\* the union "xpath:/d/text()|/d" was cut in two: Query got "/d/text()" and
\* the rest, "/d", failed as a part of its own
C21_Witness ==
    \E c \in AllCallers :
        /\ Finished(c)
        /\ frame[c].fullExpression \in UnionExpressions
        /\ frame[c].parts = << xpathPrefix \o TextOfD, NodeD >>
        /\ Len(frame[c].queryLog) = 1
        /\ frame[c].queryLog[1].expression = TextOfD
        /\ LastStage(c) = 1
        /\ ret[c].err = UnsupportedPipeErr(NodeD)

====
